---- MODULE Spec2Model ----
(***************************************************************************)
(* Model of the cube tiler of face2multires-rs: main (src/src/main.rs)     *)
(* and TileCreator::new_from_image_path / TileCreator::create_tiles        *)
(* (src/src/lib.rs).  A raster is represented by its side in pixels, the   *)
(* file system by the set of level directories and the set of tile files.  *)
(***************************************************************************)
EXTENDS Integers, Sequences, FiniteSets, TLC

\* Bounds of the explored inputs.
MaxSize == 13
MaxTile == 3

\* `as u32` of +inf saturates to u32::MAX.  TLC's integers are 32-bit signed,
\* so the value stands for u32::MAX; the code only compares it with a tile
\* size, which main reads as a u16.
SaturatedU32 == 2147483647

VARIABLES
    pc,          \* position of the program
    build,       \* "debug": overflow checks on, "release": wrapping arithmetic
    source,      \* what opening and decoding the source file gives
    srcW, srcH,  \* dimensions of the decoded source image
    reqTile,     \* --tilesize
    rootExists,  \* the output directory exists
    createdRoot, \* main created the output directory
    tile_size, cube_size, levels, image,   \* TileCreator fields (image: side of the raster)
    size, level, tiles, i, j,              \* locals of create_tiles
    dirs,        \* level directories created
    files,       \* tiles written
    err,         \* the error returned, "none" if none
    log          \* file-system and resize operations of create_tiles, in order

vars == <<pc, build, source, srcW, srcH, reqTile, rootExists, createdRoot,
          tile_size, cube_size, levels, image, size, level, tiles, i, j,
          dirs, files, err, log>>

Min(a, b) == IF a <= b THEN a ELSE b

\* (cube_size as f64 / tile_size as f64).log2().ceil() as u32, for 1 <= tile_size <= cube_size
CeilLog2Ratio(c, t) ==
    CHOOSE k \in 0..32 : t * 2^k >= c /\ \A m \in 0..(k - 1) : t * 2^m < c

\* the first value of levels
InitialLevels(c, t) == CeilLog2Ratio(c, t) + 1

SecondLevelShiftOffByOne(l) == l - 1

\* the exponent levels - 2 of the edge-case test, before any wrapping
SecondLevelShift(l) == l - 2

\* (c as f64 / d as f64).round() as u32: round half away from zero; d = 0 gives +inf
RoundDiv(c, d) == IF d = 0 THEN SaturatedU32 ELSE (2 * c + d) \div (2 * d)

\* 2u32.pow(levels - 2) in a build without overflow checks: a negative shift
\* stands for the wrapped exponent 2^32 + shift >= 32, whose power wraps to 0
WrappingPow2(shift) == IF shift < 0 \/ shift >= 32 THEN 0 ELSE 2^shift

\* the subtraction levels - 2 panics in a build with overflow checks
PlanPanics(c, t, b) == b = "debug" /\ SecondLevelShift(InitialLevels(c, t)) < 0

\* levels after the edge-case decrement
PlanLevels(c, t) ==
    LET l0 == InitialLevels(c, t)
    IN  IF RoundDiv(c, WrappingPow2(SecondLevelShift(l0))) = t THEN l0 - 1 ELSE l0

IsSquareAlways(h, w) == TRUE

IsSquare(h, w) == h = w

TilesFloorPlusOne(s, t) == s \div t + 1

\* (size as f64 / self.tile_size as f64).ceil() as u32
TilesPerSide(s, t) == (s + t - 1) \div t

NeedsResizeAlways(l, ls) == l <= ls

NeedsResize(l, ls) == l < ls

HalveUp(s) == (s + 1) \div 2

Halve(s) == s \div 2

\* width (height) of the cell at offset left (upper)
CellExtent(offset, t, c) == IF offset + t >= c THEN c - offset ELSE t

\* extent of the view crop_imm returns: the rectangle is clamped to the raster
CropExtent(offset, extent, side) == Min(extent, side - Min(offset, side))

Event(op, l, r, c, ok) == [op |-> op, level |-> l, row |-> r, col |-> c, ok |-> ok]

Init ==
    /\ pc = "main"
    /\ build \in {"debug", "release"}
    /\ source \in {"unreadable", "undecodable", "decoded"}
    /\ srcW \in 1..MaxSize
    /\ srcH \in 1..MaxSize
    /\ reqTile \in 1..MaxTile
    /\ rootExists \in BOOLEAN
    /\ createdRoot = FALSE
    /\ tile_size = 0 /\ cube_size = 0 /\ levels = 0 /\ image = 0
    /\ size = 0 /\ level = 0 /\ tiles = 0 /\ i = 0 /\ j = 0
    /\ dirs = {} /\ files = {}
    /\ err = "none"
    /\ log = <<>>

\* main: create the output directory when it does not exist
MainEnsureDirectory ==
    /\ pc = "main"
    /\ IF rootExists
       THEN pc' = "new" /\ UNCHANGED <<rootExists, createdRoot>>
       ELSE \E ok \in BOOLEAN :
              IF ok
              THEN pc' = "new" /\ rootExists' = TRUE /\ createdRoot' = TRUE
              ELSE pc' = "exit1" /\ UNCHANGED <<rootExists, createdRoot>>
    /\ UNCHANGED <<build, source, srcW, srcH, reqTile, tile_size, cube_size, levels,
                   image, size, level, tiles, i, j, dirs, files, err, log>>

\* TileCreator::new_from_image_path
NewFromImagePath ==
    /\ pc = "new"
    /\ LET h == srcW
           w == srcH
           t == Min(reqTile, h)
       IN  IF source = "unreadable"
           THEN /\ pc' = "new_err" /\ err' = "IOError"
                /\ UNCHANGED <<tile_size, cube_size, levels, image>>
           ELSE IF source = "undecodable"
           THEN /\ pc' = "new_err" /\ err' = "ImageError"
                /\ UNCHANGED <<tile_size, cube_size, levels, image>>
           ELSE IF ~IsSquare(h, w)
           THEN /\ pc' = "new_err" /\ err' = "UnsupportedSourceImage"
                /\ UNCHANGED <<tile_size, cube_size, levels, image>>
           ELSE IF PlanPanics(h, t, build)
           THEN /\ pc' = "panic"
                /\ UNCHANGED <<tile_size, cube_size, levels, image, err>>
           ELSE /\ pc' = "created"
                /\ tile_size' = t
                /\ cube_size' = h
                /\ levels' = PlanLevels(h, t)
                /\ image' = h
                /\ err' = err
    /\ UNCHANGED <<build, source, srcW, srcH, reqTile, rootExists, createdRoot,
                   size, level, tiles, i, j, dirs, files, log>>

\* create_tiles: entry
CreateTilesBegin ==
    /\ pc = "created"
    /\ size' = cube_size
    /\ level' = levels
    /\ pc' = "level_dir"
    /\ UNCHANGED <<build, source, srcW, srcH, reqTile, rootExists, createdRoot,
                   tile_size, cube_size, levels, image, tiles, i, j, dirs, files, err, log>>

\* create_tiles: create_dir_all of the level directory, then the tile count
CreateLevelDir ==
    /\ pc = "level_dir"
    /\ \E ok \in BOOLEAN :
         /\ log' = Append(log, Event("mkdir", level, 0, 0, ok))
         /\ IF ok
            THEN /\ dirs' = dirs \cup {level}
                 /\ tiles' = TilesPerSide(size, tile_size)
                 /\ i' = 0 /\ j' = 0
                 /\ pc' = IF NeedsResize(level, levels) THEN "resize" ELSE "tiles"
                 /\ err' = err
            ELSE /\ pc' = "tile_err" /\ err' = "IOError"
                 /\ UNCHANGED <<dirs, tiles, i, j>>
    /\ UNCHANGED <<build, source, srcW, srcH, reqTile, rootExists, createdRoot,
                   tile_size, cube_size, levels, image, size, level, files>>

\* create_tiles: the working raster is replaced by its resize to size x size
\* (size can be 0: the resize is then asked for an empty raster)
Resample ==
    /\ pc = "resize"
    /\ image' = size
    /\ log' = Append(log, Event("resize", level, 0, 0, TRUE))
    /\ pc' = "tiles"
    /\ UNCHANGED <<build, source, srcW, srcH, reqTile, rootExists, createdRoot,
                   tile_size, cube_size, levels, size, level, tiles, i, j, dirs, files, err>>

SaveTileIgnoringError ==
    /\ pc = "tiles"
    /\ i < tiles
    /\ LET left == j * tile_size
           upper == i * tile_size
           width == CellExtent(left, tile_size, cube_size)
           height == CellExtent(upper, tile_size, cube_size)
       IN  \E ok \in BOOLEAN :
             /\ log' = Append(log, Event("save", level, i, j, ok))
             /\ files' = IF ok
                         THEN files \cup {[level |-> level, row |-> i, col |-> j,
                                           left |-> left, upper |-> upper,
                                           width |-> width, height |-> height,
                                           w |-> CropExtent(left, width, image),
                                           h |-> CropExtent(upper, height, image)]}
                         ELSE files
             /\ IF j + 1 < tiles THEN j' = j + 1 /\ i' = i ELSE j' = 0 /\ i' = i + 1
             /\ pc' = pc /\ err' = err
    /\ UNCHANGED <<build, source, srcW, srcH, reqTile, rootExists, createdRoot,
                   tile_size, cube_size, levels, image, size, level, tiles, dirs>>

\* create_tiles: one iteration of the tile loops: the cell, crop_imm, save
SaveTile ==
    /\ pc = "tiles"
    /\ i < tiles
    /\ LET left == j * tile_size
           upper == i * tile_size
           width == CellExtent(left, tile_size, cube_size)
           height == CellExtent(upper, tile_size, cube_size)
       IN  \E ok \in BOOLEAN :
             /\ log' = Append(log, Event("save", level, i, j, ok))
             /\ IF ok
                THEN /\ files' = files \cup {[level |-> level, row |-> i, col |-> j,
                                              left |-> left, upper |-> upper,
                                              width |-> width, height |-> height,
                                              w |-> CropExtent(left, width, image),
                                              h |-> CropExtent(upper, height, image)]}
                     /\ IF j + 1 < tiles THEN j' = j + 1 /\ i' = i ELSE j' = 0 /\ i' = i + 1
                     /\ pc' = pc /\ err' = err
                ELSE /\ pc' = "tile_err" /\ err' = "IOError"
                     /\ UNCHANGED <<files, i, j>>
    /\ UNCHANGED <<build, source, srcW, srcH, reqTile, rootExists, createdRoot,
                   tile_size, cube_size, levels, image, size, level, tiles, dirs>>

\* create_tiles: end of a level: size = size / 2, next level or Ok(())
EndLevel ==
    /\ pc = "tiles"
    /\ i >= tiles
    /\ size' = Halve(size)
    /\ IF level > 1
       THEN level' = level - 1 /\ pc' = "level_dir"
       ELSE level' = level /\ pc' = "ok"
    /\ UNCHANGED <<build, source, srcW, srcH, reqTile, rootExists, createdRoot,
                   tile_size, cube_size, levels, image, tiles, i, j, dirs, files, err, log>>

Next ==
    \/ MainEnsureDirectory
    \/ NewFromImagePath
    \/ CreateTilesBegin
    \/ CreateLevelDir
    \/ Resample
    \/ SaveTile
    \/ EndLevel

Spec == Init /\ [][Next]_vars

(***************************************************************************)
(* Properties                                                              *)
(***************************************************************************)

\* positions at which new_from_image_path has returned Ok
Planned == pc \in {"created", "level_dir", "resize", "tiles", "tile_err", "ok"}

\* the tiles written for level k
LevelCells(k) == {f \in files : f.level = k}

InCell(f, x, y) ==
    /\ f.left <= x /\ x < f.left + f.width
    /\ f.upper <= y /\ y < f.upper + f.height

LevelDone == pc = "tiles" /\ i >= tiles

\* C1: when the tiles of a level have all been written, every computed cell
\* (left, upper, width, height) lies inside the level's working raster and
\* every pixel of the raster lies in exactly one cell.
TileCoverage ==
    LevelDone =>
        /\ \A f \in LevelCells(level) :
              f.left + f.width <= image /\ f.upper + f.height <= image
        /\ \A x \in 0..(image - 1) : \A y \in 0..(image - 1) :
              Cardinality({f \in LevelCells(level) : InCell(f, x, y)}) = 1

\* C2: a square source whose side is at most the requested tile size never
\* makes planning panic, and a plan that is returned has exactly one level.
DegeneratePlanningDoesNotCrash ==
    (source = "decoded" /\ srcW = srcH /\ srcW <= reqTile) =>
        /\ pc # "panic"
        /\ Planned => levels = 1

\* C3: for a square source of side tile_size * 2^k, k >= 1, the plan has
\* k + 1 levels, level l is a raster of side tile_size * 2^(l-1) cut into a
\* grid of 2^(l-1) x 2^(l-1) cells, each exactly tile_size x tile_size.
PowerOfTwoPyramid ==
    \A k \in 1..srcW :
        (Planned /\ srcW = reqTile * 2^k) =>
            /\ tile_size = reqTile
            /\ levels = k + 1
            /\ \A f \in files : f.width = tile_size /\ f.height = tile_size
            /\ pc = "tiles" =>
                  /\ image = tile_size * 2^(level - 1)
                  /\ tiles = 2^(level - 1)
            /\ LevelDone =>
                  /\ {<<f.row, f.col>> : f \in LevelCells(level)}
                        = (0..(tiles - 1)) \X (0..(tiles - 1))
                  /\ Cardinality(LevelCells(level)) = tiles * tiles

PowerOfTwoPyramidWitness ==
    pc = "ok" /\ reqTile >= 2 /\ srcW = reqTile * 4 /\ Cardinality(LevelCells(3)) = 16

\* C4 as stated: when the base size is exactly tile_size * 2^k the decrement
\* is taken, so the final level count is one less than k + 1.
DecrementAtPowerOfTwo ==
    \A k \in 0..cube_size :
        (Planned /\ cube_size = tile_size * 2^k) => levels = k

\* C4 as amended: when the base size is exactly tile_size * 2^k the decrement
\* is not taken and the plan has k + 1 levels; the decrement is taken when
\* the base size is tile_size * 2^m + r with m >= 2 and 0 < r < 2^(m-1), and
\* the plan then has m + 1 levels.
NoDecrementAtPowerOfTwo ==
    Planned =>
        /\ \A k \in 0..cube_size :
              cube_size = tile_size * 2^k => levels = k + 1
        /\ \A m \in 2..cube_size : \A r \in 1..cube_size :
              (r < 2^(m - 1) /\ cube_size = tile_size * 2^m + r) => levels = m + 1

NoDecrementAtPowerOfTwoWitness ==
    pc = "created" /\ cube_size = tile_size * 4 /\ levels = 3

\* C5: in create_tiles the running size at level k is
\* floor(cube_size / 2^(levels - k)); the raster tiled at a level k < levels
\* has that side and the raster tiled at the finest level has the base side.
HalvingClosedForm ==
    pc \in {"level_dir", "resize", "tiles"} =>
        /\ size = cube_size \div 2^(levels - level)
        /\ pc = "tiles" =>
              image = IF level = levels THEN cube_size
                      ELSE cube_size \div 2^(levels - level)

HalvingClosedFormWitness ==
    /\ pc = "tiles"
    /\ level <= levels - 2
    /\ image >= 1
    /\ image * 2^(levels - level) # cube_size

\* C6 as stated: when a non-square source is refused with
\* UnsupportedSourceImage the program has created no directory, the output
\* root included, and has written no tile.
NonSquareBeforeAnyDirectory ==
    (srcW # srcH /\ source = "decoded" /\ pc = "new_err") =>
        /\ err = "UnsupportedSourceImage"
        /\ ~createdRoot
        /\ dirs = {}
        /\ files = {}

\* C6 as amended: a non-square source never reaches create_tiles; once it is
\* decoded new_from_image_path returns UnsupportedSourceImage; no level
\* directory is created and no tile is written; the output root exists by
\* then, created by main when it was missing.
NonSquareRejected ==
    srcW # srcH =>
        /\ pc \in {"main", "new", "exit1", "new_err"}
        /\ dirs = {}
        /\ files = {}
        /\ (pc = "new_err" /\ source = "decoded") => err = "UnsupportedSourceImage"
        /\ pc = "new_err" => rootExists

NonSquareRejectedWitness ==
    /\ srcW # srcH
    /\ pc = "new_err"
    /\ err = "UnsupportedSourceImage"
    /\ createdRoot

SavedKeys == {<<f.level, f.row, f.col>> : f \in files}

LevelOrdering ==
    /\ Len(log) > 0 => log[1].op = "mkdir" /\ log[1].level = levels
    /\ \A n \in 1..(Len(log) - 1) :
          LET a == log[n]
              b == log[n + 1]
          IN  /\ b.op = "mkdir" <=> b.level = a.level - 1
              /\ b.op # "mkdir" => b.level = a.level
              /\ b.op = "resize" => a.op = "mkdir"
              /\ (a.op = "mkdir" /\ a.level < levels) => b.op = "resize"
              /\ (a.op = "mkdir" /\ a.level = levels) => b.op = "save"
    /\ \A n \in 1..Len(log) : log[n].level \in 1..levels
    /\ \A f \in files : f.level \in dirs
    /\ pc \in {"resize", "tiles"} => log[Len(log)].level = level
    /\ pc = "ok" =>
          /\ Cardinality({n \in 1..Len(log) : log[n].op = "resize"}) = levels - 1
          /\ dirs = 1..levels

LevelOrderingWitness ==
    pc = "ok" /\ levels >= 3 /\ Cardinality(files) > levels

\* C9: every level has a working raster of side >= 1 and at least one tile,
\* and level 1 has exactly one tile.
EveryLevelHasATile ==
    pc \in {"resize", "tiles"} =>
        /\ size >= 1
        /\ tiles >= 1
        /\ level = 1 => tiles = 1

\* C10: every level above level 1 has a raster strictly larger than
\* tile_size and so more than one tile.
NoRedundantLevel ==
    (pc = "tiles" /\ level >= 2) => image > tile_size /\ tiles > 1

====
